---- MODULE Spec2Model ----
(***************************************************************************)
(* QRcodeBot (src/Qrcode_Bot.py): the per-user session kept in             *)
(* context.user_data, the handlers registered in main(), and the QR        *)
(* pipeline (generate_custom_qr, image_to_qr_base64,                       *)
(* decode_qr_from_image_bytes).                                            *)
(*                                                                         *)
(* One step of the model is one update handled to completion by the one    *)
(* handler main() dispatches it to.  `out` is what that turn sent to the   *)
(* chat, `calls` the encoder invocations it made, `err` the exception the  *)
(* handler raised (the handlers catch nothing; the framework logs it).     *)
(***************************************************************************)
EXTENDS Integers, Sequences, FiniteSets, TLC

VARIABLES
    user_data,  \* user -> dict (a function whose DOMAIN is the set of keys present)
    ev,         \* the update handled by the last turn
    prev,       \* the session of that update's user as the turn found it
    out,        \* outbound actions of the last turn, in order
    calls,      \* generate_custom_qr invocations of the last turn, in order
    err,        \* exception raised by the last turn's handler, or "none"
    mon,        \* user -> observer of the event sequence (history only)
    task        \* the upload turns in flight, each with its position and locals

vars == <<user_data, ev, prev, out, calls, err, mon, task>>

----------------------------------------------------------------------------
(* Bounds *)

\* the observer counts at most this many 'toggle rounded' presses in a flow
MaxToggles == 3
\* the observer counts at most this many consecutive content messages
MaxRun == 3
\* at most this many upload turns are in flight at once
MaxTasks == 2

Users == {"u1", "u2"}
\* the users whose updates Spec delivers
Active == {"u1"}

----------------------------------------------------------------------------
(* Dict helpers: context.user_data *)

EmptyDict == [k \in {} |-> 0]

Get(d, k, default) == IF k \in DOMAIN d THEN d[k] ELSE default

SetItem(d, k, v) == [x \in (DOMAIN d) \cup {k} |-> IF x = k THEN v ELSE d[x]]

----------------------------------------------------------------------------
(* Style and menus *)

COLOR_MAP ==
    [ color_red    |-> <<220, 20, 60>>,
      color_blue   |-> <<30, 144, 255>>,
      color_green  |-> <<34, 139, 34>>,
      color_purple |-> <<138, 43, 226>>,
      color_black  |-> <<0, 0, 0>>,
      color_orange |-> <<255, 140, 0>> ]

GenModes == {"gen_text", "gen_img_base64", "gen_img_styled", "gen_img_link"}

DefaultColor == <<0, 0, 0>>

CallbackData ==
    {"mode_generate", "toggle_rounded", "style_done", "mode_decode",
     "back_to_menu", "stop"} \cup GenModes \cup DOMAIN COLOR_MAP

\* a message sent without reply_markup
no_keyboard            == [kb |-> "none", label |-> "none"]
main_menu_keyboard     == [kb |-> "main_menu", label |-> "none"]
generate_menu_keyboard == [kb |-> "generate_menu", label |-> "none"]
color_menu_keyboard    == [kb |-> "color_menu", label |-> "none"]
in_mode_keyboard       == [kb |-> "in_mode", label |-> "none"]

rounded_option_keyboard(enabled) ==
    [kb |-> "rounded_option", label |-> IF enabled THEN "checked" ELSE "unchecked"]

----------------------------------------------------------------------------
(* Outbound actions *)

reply_text(text, markup) == [act |-> "SendText", text |-> text, markup |-> markup]
reply_photo(photo)       == [act |-> "SendImage", photo |-> photo]
edit_reply_markup(markup) == [act |-> "EditMarkup", markup |-> markup]

----------------------------------------------------------------------------
(* Payloads and uploads.  A payload is a text with its length in bytes; an  *)
(* upload is described by what the pipeline reads from it: its length in    *)
(* bytes, whether it is a raster, its width and height, the size of its     *)
(* 128x128 thumbnail as an optimised PNG, and the payloads of the QR        *)
(* symbols in it, in detection order ("" is a symbol that is detected but   *)
(* does not decode).                                                        *)

Payload(kind, body, len) == [kind |-> kind, body |-> body, len |-> len]

NoText == Payload("none", "", 0)

Texts ==
    { Payload("text", "hello", 5),
      Payload("text", "hola", 4),
      Payload("text", "fits", 1273),
      Payload("text", "overflows", 1274) }

Upload(id, len, raster, w, h, png, symbols) ==
    [id |-> id, len |-> len, raster |-> raster, w |-> w, h |-> h, png |-> png,
     symbols |-> symbols]

NoImage == Upload("none", 0, FALSE, 0, 0, 0, <<>>)

\* the uploads the transport delivers: files are never empty
Images ==
    { Upload("svg",     900,   FALSE, 0,    0,    0,    <<>>),
      Upload("plain",   700,   TRUE,  64,   64,   600,  <<>>),
      Upload("oneqr",   2100,  TRUE,  300,  150,  954,  <<"hello">>),
      Upload("twoqr",   5200,  TRUE,  400,  400,  955,  <<"A", "B">>),
      Upload("atlimit", 90000, TRUE,  1280, 960,  1875, <<"">>),
      Upload("over",    4000,  TRUE,  1000, 10,   1876, <<"", "B">>),
      Upload("big",     99000, TRUE,  3000, 4000, 3750, <<"A", "A">>) }

\* byte strings at large: the above, the empty one, and bytes that are no image
RawInputs ==
    Images \cup { Upload("empty", 0, FALSE, 0, 0, 0, <<>>),
                  Upload("noise", 16, FALSE, 0, 0, 0, <<>>) }

----------------------------------------------------------------------------
(* QR core *)

\* the level the claim expects for plain text
error_correction_Q == "Q"

error_correction == "H"

\* bytes a version-40 symbol holds in byte mode at level H: qr.make(fit=True)
\* raises DataOverflowError beyond it
CapacityH == 1273

\* bytes a symbol of version 1..40 holds in byte mode at level H
ByteCapacityH ==
    <<7, 14, 24, 34, 44, 58, 64, 84, 98, 119,
      137, 155, 177, 194, 220, 250, 280, 310, 338, 382,
      403, 439, 461, 511, 535, 593, 625, 658, 698, 742,
      790, 842, 898, 958, 983, 1051, 1093, 1139, 1219, 1273>>

\* qr.make(fit=True): the smallest version that holds n bytes (n <= CapacityH)
best_fit(n) ==
    CHOOSE v \in DOMAIN ByteCapacityH :
        /\ ByteCapacityH[v] >= n
        /\ \A u \in 1..(v - 1) : ByteCapacityH[u] < n

box_size == 12

border == 4

\* side of the rendered raster in pixels: 17 + 4 * version modules and the
\* quiet zone on both sides, box_size pixels each
pixel_size(n) == (17 + 4 * best_fit(n) + 2 * border) * box_size

NoQr == [data |-> NoText, ec |-> "none", drawer |-> "none",
         front_color |-> <<>>, back_color |-> <<>>, logo |-> "none",
         width |-> 0, height |-> 0,
         logo_w |-> 0, logo_h |-> 0, logo_pos |-> <<0, 0>>]

Result(exc, qr, made) == [exc |-> exc, qr |-> qr, calls |-> made]

EncoderCall(data, color, rounded) ==
    [data |-> data, color |-> color, rounded |-> rounded, ec |-> error_correction]

\* an encoder that ignores the rounded flag
generate_custom_qr_square(data, color, rounded) ==
    IF data.len > CapacityH
    THEN Result("DataOverflowError", NoQr, <<EncoderCall(data, color, rounded)>>)
    ELSE Result("none",
                [data        |-> data,
                 ec          |-> error_correction,
                 drawer      |-> "Square",
                 front_color |-> color,
                 back_color  |-> <<255, 255, 255>>,
                 logo        |-> "none",
                 width       |-> pixel_size(data.len),
                 height      |-> pixel_size(data.len),
                 logo_w      |-> 0,
                 logo_h      |-> 0,
                 logo_pos    |-> <<0, 0>>],
                <<EncoderCall(data, color, rounded)>>)

generate_custom_qr(data, color, rounded) ==
    IF data.len > CapacityH
    THEN Result("DataOverflowError", NoQr, <<EncoderCall(data, color, rounded)>>)
    ELSE Result("none",
                [data        |-> data,
                 ec          |-> error_correction,
                 drawer      |-> IF rounded THEN "Rounded" ELSE "Square",
                 front_color |-> color,
                 back_color  |-> <<255, 255, 255>>,
                 logo        |-> "none",
                 width       |-> pixel_size(data.len),
                 height      |-> pixel_size(data.len),
                 logo_w      |-> 0,
                 logo_h      |-> 0,
                 logo_pos    |-> <<0, 0>>],
                <<EncoderCall(data, color, rounded)>>)

\* len(base64.b64encode(b)) for len(b) = n
B64Len(n) == 4 * ((n + 2) \div 3)

Ceiling == 2500

\* a packer that cuts the text at the ceiling instead of failing
image_to_qr_base64_truncating(image, color, rounded) ==
    IF ~image.raster
    THEN Result("UnidentifiedImageError", NoQr, <<>>)
    ELSE LET n == B64Len(image.png)
         IN  generate_custom_qr(Payload("b64", image.id, IF n > Ceiling THEN Ceiling ELSE n),
                                color, rounded)

image_to_qr_base64(image, color, rounded) ==
    IF ~image.raster
    THEN Result("UnidentifiedImageError", NoQr, <<>>)
    ELSE LET encoded == Payload("b64", image.id, B64Len(image.png))
         IN  IF encoded.len > Ceiling
             THEN Result("ValueError", NoQr, <<>>)
             ELSE generate_custom_qr(encoded, color, rounded)

\* cv2.QRCodeDetector.detectAndDecode: what the single-symbol detector can
\* return for an image.  It reports one symbol: "" when there is none, that
\* symbol's payload ("" if it does not decode) when there is one, and with
\* several symbols the payload of whichever it locks on, or "".
detectAndDecode(image) ==
    IF Len(image.symbols) = 0 THEN {""}
    ELSE IF Len(image.symbols) = 1 THEN {image.symbols[1]}
    ELSE {image.symbols[i] : i \in 1..Len(image.symbols)} \cup {""}

Decoded(exc, list) == [exc |-> exc, decoded |-> list]

\* `data` is what detectAndDecode returned for the image.  cv2.imdecode
\* asserts that its buffer is not empty (cv2.error) and returns None for
\* bytes it cannot decode; nothing here catches an exception.
decode_qr_from_image_bytes(image, data) ==
    IF image.len = 0
    THEN Decoded("cv2.error", <<>>)
    ELSE IF ~image.raster
    THEN Decoded("none", <<>>)
    ELSE IF data # "" THEN Decoded("none", <<data>>) ELSE Decoded("none", <<>>)

----------------------------------------------------------------------------
(* Updates, and the handler main() dispatches each one to *)

Event(u, kind, data, text, image, mode) ==
    [user |-> u, kind |-> kind, data |-> data, text |-> text, image |-> image,
     mode |-> mode]

NoEvent == Event("none", "none", "", NoText, NoImage, "None")

ImageMimes == {"image/png", "image/svg+xml"}

\* the declared mime type of an upload sent as a file
DocMime(image) == IF image.raster THEN "image/png" ELSE "image/svg+xml"

\* the updates a user can send; `mode` is filled in when the update is handled
Updates(u) ==
    {Event(u, "command", c, NoText, NoImage, "None") : c \in {"start", "stop", "help"}}
    \cup {Event(u, "callback", b, NoText, NoImage, "None") : b \in CallbackData}
    \cup {Event(u, "text", "", t, NoImage, "None") : t \in Texts}
    \cup {Event(u, "photo", "", NoText, i, "None") : i \in {j \in Images : j.raster}}
    \cup {Event(u, "document", DocMime(i), NoText, i, "None") : i \in Images}
    \cup {Event(u, "document", "application/pdf", NoText, NoImage, "None"),
          Event(u, "sticker", "", NoText, NoImage, "None")}

\* app.add_handler order: within a group the first handler whose filter
\* matches handles the update, and no other
Dispatch(e) ==
    IF e.kind = "command" /\ e.data = "start" THEN "start"
    ELSE IF e.kind = "command" /\ e.data = "stop" THEN "stop_command"
    ELSE IF e.kind = "callback" THEN "button_callback"
    ELSE IF e.kind = "text" THEN "text_message_handler"
    ELSE IF e.kind = "photo" THEN "photo_or_document_handler"
    ELSE IF e.kind = "document" /\ e.data \in ImageMimes THEN "photo_or_document_handler"
    ELSE "unknown_handler"

----------------------------------------------------------------------------
(* Handlers, as functions from the session and the update to the new       *)
(* session, the outbound actions, the encoder calls and the exception      *)

Turn(d, outs, made, exc) == [d |-> d, out |-> outs, calls |-> made, exc |-> exc]

\* a clear() that forgets the mode and keeps the style
clear_mode_only(d) == [k \in (DOMAIN d) \ {"mode"} |-> d[k]]

clear(d) == EmptyDict

start(d) ==
    Turn(clear(d), <<reply_text("welcome", main_menu_keyboard)>>, <<>>, "none")

stop_command(d) ==
    Turn(clear(d), <<reply_text("stopped", main_menu_keyboard)>>, <<>>, "none")

\* a purpose selection that keeps the style an earlier flow left
select_purpose_keep(d, data) ==
    LET d1 == SetItem(d, "mode", data)
        d2 == IF "qr_color" \in DOMAIN d1 THEN d1 ELSE SetItem(d1, "qr_color", DefaultColor)
    IN  IF "qr_rounded" \in DOMAIN d2 THEN d2 ELSE SetItem(d2, "qr_rounded", FALSE)

\* a purpose selection that records the mode and leaves the style unset
select_purpose_mode_only(d, data) == SetItem(d, "mode", data)

select_purpose(d, data) ==
    SetItem(SetItem(SetItem(d, "mode", data), "qr_color", DefaultColor),
            "qr_rounded", FALSE)

select_color(d, data) == SetItem(d, "qr_color", COLOR_MAP[data])

\* a toggle that switches rounding on and never off
toggle_rounded_set(d) == SetItem(d, "qr_rounded", TRUE)

toggle_rounded(d) == SetItem(d, "qr_rounded", ~Get(d, "qr_rounded", FALSE))

select_decode(d) == SetItem(d, "mode", "decode")

button_callback(d, data) ==
    CASE data = "mode_generate" ->
           Turn(d, <<reply_text("choose_generation", generate_menu_keyboard)>>,
                <<>>, "none")
      [] data \in GenModes ->
           Turn(select_purpose(d, data),
                <<reply_text("choose_color", color_menu_keyboard)>>, <<>>, "none")
      [] data \in DOMAIN COLOR_MAP ->
           Turn(select_color(d, data),
                <<reply_text("ask_rounded", rounded_option_keyboard(FALSE))>>,
                <<>>, "none")
      [] data = "toggle_rounded" ->
           LET d2 == toggle_rounded(d)
           IN  Turn(d2, <<edit_reply_markup(rounded_option_keyboard(d2["qr_rounded"]))>>,
                    <<>>, "none")
      [] data = "style_done" ->
           Turn(d, <<reply_text("send_content", in_mode_keyboard)>>, <<>>, "none")
      [] data = "mode_decode" ->
           Turn(select_decode(d), <<reply_text("send_qr_image", in_mode_keyboard)>>,
                <<>>, "none")
      [] data = "back_to_menu" ->
           Turn(clear(d), <<reply_text("main_menu", main_menu_keyboard)>>, <<>>, "none")
      [] data = "stop" ->
           Turn(clear(d), <<reply_text("stopped", main_menu_keyboard)>>, <<>>, "none")
      [] OTHER -> Turn(d, <<>>, <<>>, "none")

\* context.user_data["qr_color"], context.user_data["qr_rounded"]
HasStyle(d) == {"qr_color", "qr_rounded"} \subseteq DOMAIN d

\* a send that returns the session to the menu after one image
SendQr_once(d, r) ==
    IF r.exc = "none"
    THEN Turn(EmptyDict, <<reply_photo(r.qr)>>, r.calls, "none")
    ELSE Turn(d, <<>>, r.calls, r.exc)

\* qr.name = "qrcode.png"; reply_photo(photo=qr), or the exception propagates
SendQr(d, r) ==
    IF r.exc = "none"
    THEN Turn(d, <<reply_photo(r.qr)>>, r.calls, "none")
    ELSE Turn(d, <<>>, r.calls, r.exc)

text_message_handler(d, text) ==
    IF Get(d, "mode", "None") = "gen_text"
    THEN IF ~HasStyle(d)
         THEN Turn(d, <<>>, <<>>, "KeyError")
         ELSE SendQr(d, generate_custom_qr(text, d["qr_color"], d["qr_rounded"]))
    ELSE Turn(d, <<>>, <<>>, "none")

StyledText == Payload("text", "QR Stylise", 11)
LinkText   == Payload("text", "https://example.com/image", 25)

LogoMax == 200

\* the integer next to a / b that Image.thumbnail keeps for a scaled side:
\* floor or ceiling, whichever keeps the aspect ratio w / h closer when the
\* other side is `other` (`wide`: the scaled side is the height), floor on a
\* tie, and at least 1
round_aspect(a, b, w, h, other, wide) ==
    LET f == a \div b
        c == IF a % b = 0 THEN f ELSE f + 1
        pick == IF f = c THEN f
                ELSE IF ~wide
                THEN IF 2 * (a % b) <= b THEN f ELSE c
                ELSE IF f = 0 THEN 0
                ELSE IF other * h * (c + f) <= 2 * w * f * c THEN f ELSE c
    IN  IF pick < 1 THEN 1 ELSE pick

\* Image.thumbnail((max, max)): the size is kept if it fits, else the image
\* is shrunk into the box with its aspect ratio preserved
thumbnail(w, h, max) ==
    IF w <= max /\ h <= max THEN <<w, h>>
    ELSE IF w <= h
    THEN <<round_aspect(max * w, h, w, h, max, FALSE), max>>
    ELSE <<max, round_aspect(max * h, w, w, h, max, TRUE)>>

\* the gen_img_styled branch: the QR is rendered first, then the upload is
\* opened as the logo, shrunk and pasted on it
styled_with_logo(image, color, rounded) ==
    LET r == generate_custom_qr(StyledText, color, rounded)
        logo == thumbnail(image.w, image.h, LogoMax)
        pos == <<(r.qr.width - logo[1]) \div 2, (r.qr.height - logo[2]) \div 2>>
    IN  IF r.exc # "none" THEN r
        ELSE IF ~image.raster THEN Result("UnidentifiedImageError", NoQr, r.calls)
        ELSE Result("none",
                    [r.qr EXCEPT !.logo = image.id, !.logo_w = logo[1],
                                 !.logo_h = logo[2], !.logo_pos = pos],
                    r.calls)

\* a decode reply that leaves Decoding after one image
decode_reply_once(d, image, data) ==
    LET r == decode_qr_from_image_bytes(image, data)
    IN  IF r.exc # "none" THEN Turn(d, <<>>, <<>>, r.exc)
        ELSE Turn(EmptyDict,
                  <<reply_text(IF Len(r.decoded) > 0 THEN r.decoded[1]
                               ELSE "no_qr_detected", no_keyboard)>>,
                  <<>>, "none")

\* the decode branch
decode_reply(d, image, data) ==
    LET r == decode_qr_from_image_bytes(image, data)
    IN  IF r.exc # "none" THEN Turn(d, <<>>, <<>>, r.exc)
        ELSE Turn(d,
                  <<reply_text(IF Len(r.decoded) > 0 THEN r.decoded[1]
                               ELSE "no_qr_detected", no_keyboard)>>,
                  <<>>, "none")

\* the handler after `mode = context.user_data.get("mode")`: `mode` is the
\* local read at the start of the turn, `d` the session when the pipeline runs
photo_or_document_body(d, mode, kind, mime, image, data) ==
    LET has_file == kind = "photo" \/ (kind = "document" /\ mime \in ImageMimes)
    IN  IF ~has_file THEN Turn(d, <<>>, <<>>, "none")
        ELSE IF mode \in GenModes \ {"gen_text"} /\ ~HasStyle(d)
        THEN Turn(d, <<>>, <<>>, "KeyError")
        ELSE IF mode = "gen_img_base64"
        THEN SendQr(d, image_to_qr_base64(image, d["qr_color"], d["qr_rounded"]))
        ELSE IF mode = "gen_img_styled"
        THEN SendQr(d, styled_with_logo(image, d["qr_color"], d["qr_rounded"]))
        ELSE IF mode = "gen_img_link"
        THEN SendQr(d, generate_custom_qr(LinkText, d["qr_color"], d["qr_rounded"]))
        ELSE IF mode = "decode"
        THEN decode_reply(d, image, data)
        ELSE Turn(d, <<>>, <<>>, "none")

photo_or_document_handler(d, kind, mime, image, data) ==
    photo_or_document_body(d, Get(d, "mode", "None"), kind, mime, image, data)

unknown_handler(d) ==
    Turn(d, <<reply_text("unknown_command", main_menu_keyboard)>>, <<>>, "none")

\* the handler main() dispatches update e to, run on session d; `data` is what
\* the detector returns if the handler asks it
Run(d, e, data) ==
    CASE Dispatch(e) = "start" -> start(d)
      [] Dispatch(e) = "stop_command" -> stop_command(d)
      [] Dispatch(e) = "button_callback" -> button_callback(d, e.data)
      [] Dispatch(e) = "text_message_handler" -> text_message_handler(d, e.text)
      [] Dispatch(e) = "photo_or_document_handler" ->
           photo_or_document_handler(d, e.kind, e.data, e.image, data)
      [] OTHER -> unknown_handler(d)

----------------------------------------------------------------------------
(* Observer of one user's event sequence.  It records history only: the    *)
(* handlers never read it.                                                 *)
(*   flow      progress through [purpose from Idle, colour, toggles,       *)
(*             continue], with the purpose, the colour and the number of   *)
(*             toggles pressed                                             *)
(*   run       the current run of consecutive content messages of one kind *)
(*             ("text": texts within capacity in gen_text mode, "upload":  *)
(*             uploads in decode mode), with what the run has sent and the *)
(*             session as it was before the run's first message            *)
(*   decoding  'decode' was selected and no back, stop, /start or purpose  *)
(*             selection came since                                        *)
(*   solo      the session this user's updates produce when they are       *)
(*             handled alone, from a fresh session, with the same replies  *)
(*   same      every turn of this user so far sent what a turn on `solo`   *)
(*             can send                                                    *)
(*   style     the style the user's selections call for: the colour last   *)
(*             selected and the parity of the toggles since the last       *)
(*             purpose selection or reset (black, off to begin with)       *)
(*   confirm   "pending" from a purpose selection until 'continue' is      *)
(*             pressed, "confirmed" from then on, "none" after a reset or  *)
(*             'decode'                                                    *)
(*   shown     what the rounded-toggle control rendered last shows          *)

NoFlow == [stage |-> "none", purpose |-> "none", color |-> "none", n |-> 0]

NoRun == [kind |-> "none", count |-> 0, images |-> 0, texts |-> 0, start |-> EmptyDict]

Count(outs, act) == Cardinality({i \in 1..Len(outs) : outs[i].act = act})

Min(a, b) == IF a < b THEN a ELSE b

FlowNext(f, d, e) ==
    IF e.kind # "callback" THEN NoFlow
    ELSE IF e.data \in GenModes /\ "mode" \notin DOMAIN d
    THEN [stage |-> "purpose", purpose |-> e.data, color |-> "none", n |-> 0]
    ELSE IF e.data \in DOMAIN COLOR_MAP /\ f.stage = "purpose"
    THEN [f EXCEPT !.stage = "colour", !.color = e.data]
    ELSE IF e.data = "toggle_rounded" /\ f.stage = "colour" /\ f.n < MaxToggles
    THEN [f EXCEPT !.n = f.n + 1]
    ELSE IF e.data = "style_done" /\ f.stage = "colour"
    THEN [f EXCEPT !.stage = "done"]
    ELSE NoFlow

IsUpload(e) == Dispatch(e) = "photo_or_document_handler"

RunKind(d, e) ==
    IF e.kind = "text" /\ Get(d, "mode", "None") = "gen_text" /\ e.text.len <= CapacityH
    THEN "text"
    ELSE IF IsUpload(e) /\ Get(d, "mode", "None") = "decode"
    THEN "upload"
    ELSE "none"

RunNext(r, d, e, outs) ==
    LET k == RunKind(d, e)
        base == IF r.kind = k THEN r ELSE [NoRun EXCEPT !.kind = k, !.start = d]
    IN  IF k = "none" THEN NoRun
        ELSE [base EXCEPT !.count  = Min(base.count + 1, MaxRun),
                          !.images = Min(base.images + Count(outs, "SendImage"), MaxRun),
                          !.texts  = Min(base.texts + Count(outs, "SendText"), MaxRun)]

IsReset(e) ==
    \/ e.kind = "callback" /\ e.data \in {"back_to_menu", "stop"} \cup GenModes
    \/ e.kind = "command" /\ e.data \in {"start", "stop"}

DecodingNext(b, e) ==
    IF e.kind = "callback" /\ e.data = "mode_decode" THEN TRUE
    ELSE IF IsReset(e) THEN FALSE
    ELSE b

NoStyle == [color |-> "color_black", rounded |-> FALSE]

StyleNext(st, e) ==
    IF IsReset(e) THEN NoStyle
    ELSE IF e.kind = "callback" /\ e.data \in DOMAIN COLOR_MAP
    THEN [st EXCEPT !.color = e.data]
    ELSE IF e.kind = "callback" /\ e.data = "toggle_rounded"
    THEN [st EXCEPT !.rounded = ~st.rounded]
    ELSE st

ConfirmNext(c, e) ==
    IF e.kind = "callback" /\ e.data \in GenModes THEN "pending"
    ELSE IF IsReset(e) \/ (e.kind = "callback" /\ e.data = "mode_decode") THEN "none"
    ELSE IF e.kind = "callback" /\ e.data = "style_done" /\ c = "pending"
    THEN "confirmed"
    ELSE c

\* the labels of the rounded-toggle controls among the outbound actions
ToggleLabels(outs) ==
    {outs[i].markup.label :
        i \in {j \in 1..Len(outs) : /\ outs[j].act \in {"SendText", "EditMarkup"}
                                     /\ outs[j].markup.kb = "rounded_option"}}

ShownNext(sh, outs) ==
    IF ToggleLabels(outs) = {} THEN sh ELSE CHOOSE l \in ToggleLabels(outs) : TRUE

\* the runs of e's handler on the session `ds` that send `outs`
SoloRuns(ds, e, outs) ==
    {r \in {Run(ds, e, data) : data \in detectAndDecode(e.image)} : r.out = outs}

SoloNext(ds, e, outs) ==
    IF SoloRuns(ds, e, outs) = {} THEN ds
    ELSE (CHOOSE r \in SoloRuns(ds, e, outs) : TRUE).d

Observe(m, d, e, outs) ==
    [flow     |-> FlowNext(m.flow, d, e),
     run      |-> RunNext(m.run, d, e, outs),
     decoding |-> DecodingNext(m.decoding, e),
     solo     |-> SoloNext(m.solo, e, outs),
     same     |-> m.same /\ SoloRuns(m.solo, e, outs) # {},
     style    |-> StyleNext(m.style, e),
     confirm  |-> ConfirmNext(m.confirm, e),
     shown    |-> ShownNext(m.shown, outs)]

----------------------------------------------------------------------------
(* The state machine *)

Init ==
    /\ user_data = [u \in Users |-> EmptyDict]
    /\ ev = NoEvent
    /\ prev = EmptyDict
    /\ out = <<>>
    /\ calls = <<>>
    /\ err = "none"
    /\ mon = [u \in Users |-> [flow |-> NoFlow, run |-> NoRun, decoding |-> FALSE,
                               solo |-> EmptyDict, same |-> TRUE,
                               style |-> NoStyle, confirm |-> "none",
                               shown |-> "none"]]
    /\ task = {}

\* one dict for the whole bot instead of one per user
Store_shared(ud, u, d) == [v \in Users |-> d]

\* context.user_data is the dict of the update's user
Store(ud, u, d) == [ud EXCEPT ![u] = d]

\* user u's update e, whose handler read `mode` at its start, is handled to
\* completion with result t
HandledAs(u, e, mode, t) ==
    /\ user_data' = Store(user_data, u, t.d)
    /\ ev' = [e EXCEPT !.mode = mode]
    /\ prev' = user_data[u]
    /\ out' = t.out
    /\ calls' = t.calls
    /\ err' = t.exc
    /\ mon' = [mon EXCEPT ![u] = Observe(mon[u], user_data[u], e, t.out)]

\* the turn runs in one piece: nothing of the session changes between the
\* handler's first read and its reply
Handled(u, e, t) ==
    /\ HandledAs(u, e, Get(user_data[u], "mode", "None"), t)
    /\ UNCHANGED task

Start(u) ==
    \E e \in Updates(u) :
        /\ Dispatch(e) = "start"
        /\ Handled(u, e, start(user_data[u]))

StopCommand(u) ==
    \E e \in Updates(u) :
        /\ Dispatch(e) = "stop_command"
        /\ Handled(u, e, stop_command(user_data[u]))

ButtonCallback(u) ==
    \E e \in Updates(u) :
        /\ Dispatch(e) = "button_callback"
        /\ Handled(u, e, button_callback(user_data[u], e.data))

TextMessage(u) ==
    \E e \in Updates(u) :
        /\ Dispatch(e) = "text_message_handler"
        /\ Handled(u, e, text_message_handler(user_data[u], e.text))

PhotoOrDocument(u) ==
    \E e \in Updates(u) :
        \E data \in detectAndDecode(e.image) :
            /\ Dispatch(e) = "photo_or_document_handler"
            /\ Handled(u, e, photo_or_document_handler(user_data[u], e.kind, e.data,
                                                       e.image, data))

Unknown(u) ==
    \E e \in Updates(u) :
        /\ Dispatch(e) = "unknown_handler"
        /\ Handled(u, e, unknown_handler(user_data[u]))

Next ==
    \E u \in Active :
        \/ Start(u)
        \/ StopCommand(u)
        \/ ButtonCallback(u)
        \/ TextMessage(u)
        \/ PhotoOrDocument(u)
        \/ Unknown(u)

Spec == Init /\ [][Next]_vars

----------------------------------------------------------------------------
(* The decoder on byte strings at large.  Besides the updates of Spec, the  *)
(* upload handler is handed any byte string, the empty one included, so     *)
(* that decode_qr_from_image_bytes is applied to every kind of input.       *)

RawUpload(u) ==
    \E image \in RawInputs :
        \E data \in detectAndDecode(image) :
            LET e == Event(u, "document", "image/png", NoText, image, "None")
            IN  Handled(u, e, Run(user_data[u], e, data))

NextDecoder ==
    \E u \in Active :
        \/ Start(u)
        \/ StopCommand(u)
        \/ ButtonCallback(u)
        \/ TextMessage(u)
        \/ PhotoOrDocument(u)
        \/ Unknown(u)
        \/ RawUpload(u)

SpecDecoder == Init /\ [][NextDecoder]_vars

----------------------------------------------------------------------------
(* Two users.  The updates of both arrive in any order; each is handled to  *)
(* completion on its own user's session.                                    *)

FewUpdates(u) ==
    {e \in Updates(u) :
        \/ e.kind = "callback" /\ e.data \in {"gen_text", "color_blue", "toggle_rounded",
                                               "mode_decode", "back_to_menu"}
        \/ e.kind = "text" /\ e.text.body = "hello"
        \/ e.kind = "photo" /\ e.image.id = "twoqr"}

Deliver(u) ==
    \E e \in FewUpdates(u) :
        \E data \in detectAndDecode(e.image) :
            Handled(u, e, Run(user_data[u], e, data))

NextUsers == \E u \in Users : Deliver(u)

SpecUsers == Init /\ [][NextUsers]_vars

----------------------------------------------------------------------------
(* The upload turn in steps.  photo_or_document_handler reads the mode, then *)
(* awaits get_file, awaits download_to_memory, and then runs the pipeline    *)
(* and replies.  Whether another update is handled while it waits is the     *)
(* application's choice: built as main() builds it, the application awaits   *)
(* each update's handler before it takes the next update from its queue.     *)

\* an application built with concurrent_updates(True)
concurrent_updates_on == TRUE

\* ApplicationBuilder().token(BOT_TOKEN).build(): the default
concurrent_updates == FALSE

\* the uploads the stepwise turns are run on
StepImages == {i \in Images : i.id \in {"svg", "plain", "oneqr"}}

\* a handler may be started
CanStart ==
    \/ task = {}
    \/ concurrent_updates /\ Cardinality(task) < MaxTasks

Advance(t, pc) == task' = (task \ {t}) \cup {[t EXCEPT !.pc = pc]}

BeginUpload(u) ==
    \E e \in Updates(u) :
        /\ CanStart
        /\ IsUpload(e)
        /\ e.image \in StepImages
        /\ task' = task \cup {[e |-> e, pc |-> "get_file",
                               mode |-> Get(user_data[u], "mode", "None")]}
        /\ UNCHANGED <<user_data, ev, prev, out, calls, err, mon>>

GetFile ==
    \E t \in task :
        /\ t.pc = "get_file"
        /\ Advance(t, "download")
        /\ UNCHANGED <<user_data, ev, prev, out, calls, err, mon>>

Download ==
    \E t \in task :
        /\ t.pc = "download"
        /\ Advance(t, "pipeline")
        /\ UNCHANGED <<user_data, ev, prev, out, calls, err, mon>>

Reply ==
    \E t \in task :
        \E data \in detectAndDecode(t.e.image) :
            /\ t.pc = "pipeline"
            /\ HandledAs(t.e.user, t.e, t.mode,
                         photo_or_document_body(user_data[t.e.user], t.mode, t.e.kind,
                                                t.e.data, t.e.image, data))
            /\ task' = task \ {t}

\* the other handlers touch the session in one piece, between their awaits
StartStep(u)          == CanStart /\ Start(u)
StopCommandStep(u)    == CanStart /\ StopCommand(u)
ButtonCallbackStep(u) == CanStart /\ ButtonCallback(u)
TextMessageStep(u)    == CanStart /\ TextMessage(u)
UnknownStep(u)        == CanStart /\ Unknown(u)

NextSteps ==
    \/ \E u \in Active :
          \/ StartStep(u)
          \/ StopCommandStep(u)
          \/ ButtonCallbackStep(u)
          \/ TextMessageStep(u)
          \/ UnknownStep(u)
          \/ BeginUpload(u)
    \/ GetFile
    \/ Download
    \/ Reply

SpecSteps == Init /\ [][NextSteps]_vars

----------------------------------------------------------------------------
(* Views of the session *)

Mode(u) == Get(user_data[u], "mode", "None")

Rounded(u) == Get(user_data[u], "qr_rounded", FALSE)

TypeOK ==
    /\ \A u \in Users :
          /\ DOMAIN user_data[u] \subseteq {"mode", "qr_color", "qr_rounded"}
          /\ Mode(u) \in GenModes \cup {"decode", "None"}
    /\ err \in {"none", "KeyError", "ValueError", "DataOverflowError",
                "UnidentifiedImageError", "cv2.error"}
    /\ Len(calls) <= 1

----------------------------------------------------------------------------
(* Claims *)

IsClear(e) ==
    \/ e.kind = "callback" /\ e.data \in {"back_to_menu", "stop"}
    \/ e.kind = "command" /\ e.data = "stop"

\* C1: from Idle, [select purpose P, select colour C, n x toggle rounded,
\* continue] ends with mode = P (the session awaits content for P, and the
\* content prompt was sent), fill colour = COLOR_MAP[C] and rounded = (n odd).
C1_FlowLandsInContent ==
    \A u \in Users :
        mon[u].flow.stage = "done" =>
            /\ Mode(u) = mon[u].flow.purpose
            /\ HasStyle(user_data[u])
            /\ user_data[u]["qr_color"] = COLOR_MAP[mon[u].flow.color]
            /\ user_data[u]["qr_rounded"] = (mon[u].flow.n % 2 = 1)
            /\ (ev.user = u => out = <<reply_text("send_content", in_mode_keyboard)>>)

\* a flow with an odd number (> 1) of toggles and a non-default colour is completed
C1_Witness ==
    \E u \in Users :
        /\ mon[u].flow.stage = "done"
        /\ mon[u].flow.n = 3
        /\ mon[u].flow.color = "color_blue"
        /\ mon[u].flow.purpose = "gen_img_styled"

\* C2: in gen_text mode every text within the encoder's capacity produces
\* exactly one SendImage and nothing else, and leaves the session (mode and
\* style) as it was: after k consecutive such texts k images were sent and the
\* session is the one the first text found.
C2_StickyText ==
    \A u \in Users :
        mon[u].run.kind = "text" =>
            /\ mon[u].run.images = mon[u].run.count
            /\ mon[u].run.texts = 0
            /\ user_data[u] = mon[u].run.start
            /\ Mode(u) = "gen_text"
            /\ (ev.user = u =>
                  /\ Len(out) = 1
                  /\ out[1].act = "SendImage"
                  /\ user_data[u] = prev)

\* two or more consecutive texts were submitted, with a chosen style
C2_Witness ==
    \E u \in Users :
        /\ mon[u].run.kind = "text"
        /\ mon[u].run.count >= 2
        /\ mon[u].run.images >= 2
        /\ Rounded(u)

\* C3: after 'back to menu', 'stop' (button) or /stop, whatever the session
\* was, nothing is recorded in it: no mode, no colour, and the rounded flag
\* reads false.
C3_ResetClears ==
    IsClear(ev) =>
        /\ user_data[ev.user] = EmptyDict
        /\ Mode(ev.user) = "None"
        /\ "qr_color" \notin DOMAIN user_data[ev.user]
        /\ Rounded(ev.user) = FALSE

\* a reset taken from a session with a purpose, a colour and rounding on
C3_Witness ==
    /\ IsClear(ev)
    /\ ev.mode = "gen_img_link"
    /\ HasStyle(prev)
    /\ prev["qr_color"] = COLOR_MAP["color_red"]
    /\ prev["qr_rounded"]

\* a text or an upload that matches no transition of the session's state
Unmatched(e) ==
    \/ e.kind = "text" /\ e.mode # "gen_text"
    \/ IsUpload(e) /\ e.mode \in {"None", "gen_text"}

\* C4 (as claimed): a text message or image upload that matches no transition
\* of the current state leaves the session unchanged and is answered with an
\* 'unrecognized' notice.
C4_UnmatchedGetsNotice ==
    Unmatched(ev) =>
        /\ user_data[ev.user] = prev
        /\ Count(out, "SendText") = 1

\* C5 (as claimed): a content turn whose pipeline call fails sends exactly one
\* text reporting the rejection, no image, and leaves the mode unchanged.
C5_FailureIsReported ==
    (err # "none" /\ (ev.kind = "text" \/ IsUpload(ev))) =>
        /\ Count(out, "SendText") = 1
        /\ Count(out, "SendImage") = 0
        /\ Mode(ev.user) = ev.mode

\* C6: in gen_img_base64 mode the packer either raises (and the encoder is not
\* called) or calls the encoder once with the whole base64 text of the upload;
\* a base64 text longer than the ceiling always raises, so no encoder call
\* carries more than the ceiling.
C6_PackerNeverTruncates ==
    (IsUpload(ev) /\ ev.mode = "gen_img_base64") =>
        LET n == B64Len(ev.image.png)
        IN  /\ \/ err \in {"ValueError", "UnidentifiedImageError"} /\ calls = <<>>
               \/ /\ Len(calls) = 1
                  /\ calls[1].data = Payload("b64", ev.image.id, n)
            /\ (ev.image.raster /\ n > Ceiling) =>
                  (err = "ValueError" /\ calls = <<>> /\ out = <<>>)
            /\ \A i \in 1..Len(calls) : calls[i].data.len <= Ceiling

\* an upload whose base64 text is longer than the ceiling was rejected
C6_Witness ==
    /\ IsUpload(ev)
    /\ ev.mode = "gen_img_base64"
    /\ ev.image.raster
    /\ B64Len(ev.image.png) > Ceiling
    /\ err = "ValueError"

\* the strings a reply shows
Shown(outs) == {outs[i].text : i \in {j \in 1..Len(outs) : outs[j].act = "SendText"}}

\* C7 (as claimed): in decode mode the reply to an upload lists every
\* non-empty string decoded from the symbols in it.
C7_ListsEverySymbol ==
    (IsUpload(ev) /\ ev.mode = "decode" /\ ev.image.raster) =>
        \A i \in 1..Len(ev.image.symbols) :
            ev.image.symbols[i] # "" => ev.image.symbols[i] \in Shown(out)

\* C8: once 'decode' is selected the mode stays "decode" until a back, stop,
\* /start or purpose selection; every upload handled in decode mode sends
\* exactly one text and no image and leaves the session as it was, for any
\* number of consecutive uploads.
C8_StickyDecode ==
    /\ \A u \in Users :
          /\ mon[u].decoding => Mode(u) = "decode"
          /\ mon[u].run.kind = "upload" =>
                /\ mon[u].run.texts = mon[u].run.count
                /\ mon[u].run.images = 0
                /\ user_data[u] = mon[u].run.start
                /\ Mode(u) = "decode"
    /\ (IsUpload(ev) /\ ev.mode = "decode") =>
          /\ Len(out) = 1
          /\ out[1].act = "SendText"
          /\ err = "none"

\* two or more consecutive uploads after 'decode', the last one without a symbol
C8_Witness ==
    \E u \in Users :
        /\ mon[u].decoding
        /\ mon[u].run.kind = "upload"
        /\ mon[u].run.count >= 2
        /\ ev.image.symbols = <<>>
        /\ out = <<reply_text("no_qr_detected", no_keyboard)>>

\* C9 (as claimed): an encoder invocation uses level H for an embedded-image
\* payload or a logo overlay and level Q otherwise.
C9_LevelByPurpose ==
    \A i \in 1..Len(calls) :
        calls[i].ec = IF ev.mode \in {"gen_img_base64", "gen_img_styled"} THEN "H" ELSE "Q"

\* C9 (amended): every encoder invocation uses level H, whatever the purpose,
\* and so does every image sent.
C9_LevelAlwaysH ==
    /\ \A i \in 1..Len(calls) : calls[i].ec = "H"
    /\ \A i \in 1..Len(out) : out[i].act = "SendImage" => out[i].photo.ec = "H"

\* the encoder was invoked for a text in gen_text mode and the image was sent
C9_Witness ==
    /\ ev.mode = "gen_text"
    /\ Len(calls) = 1
    /\ calls[1].data.kind = "text"
    /\ Count(out, "SendImage") = 1

\* C10: right after a generation purpose is selected, whatever the session
\* held, the style is the default: black fill, rounding off.
C10_PurposeResetsStyle ==
    (ev.kind = "callback" /\ ev.data \in GenModes) =>
        /\ Mode(ev.user) = ev.data
        /\ HasStyle(user_data[ev.user])
        /\ user_data[ev.user]["qr_color"] = <<0, 0, 0>>
        /\ user_data[ev.user]["qr_rounded"] = FALSE

\* a purpose selected over a session that held a colour and rounding on
C10_Witness ==
    /\ ev.kind = "callback"
    /\ ev.data \in GenModes
    /\ HasStyle(prev)
    /\ prev["qr_color"] = COLOR_MAP["color_orange"]
    /\ prev["qr_rounded"]
    /\ Get(prev, "mode", "None") = "decode"

\* C11: with the upload turn taken step by step (read mode, get file,
\* download, pipeline and reply), at most one turn is in flight, the mode a
\* turn in flight read at its start is the session's mode at every later step,
\* and it is the session's mode when the reply is sent.
C11_TurnsRunToCompletion ==
    /\ Cardinality(task) <= 1
    /\ \A t \in task : t.mode = Mode(t.e.user)
    /\ IsUpload(ev) =>
          /\ ev.mode = Get(prev, "mode", "None")
          /\ ev.mode = Mode(ev.user)

\* an upload turn went through its steps in decode mode and replied
C11_Witness ==
    /\ task = {}
    /\ IsUpload(ev)
    /\ ev.mode = "decode"
    /\ Count(out, "SendText") = 1

\* C12: with the updates of two users interleaved in any order, each user's
\* session is the one that user's updates produce when handled alone, and every
\* turn sent what it sends when handled alone; a turn of one user therefore
\* leaves the other's session as it was.
C12_UsersAreIndependent ==
    \A u \in Users :
        /\ mon[u].same
        /\ user_data[u] = mon[u].solo

\* one user sent an image from a styled text flow while the other is decoding
C12_Witness ==
    /\ Mode("u1") = "gen_text"
    /\ Rounded("u1")
    /\ Mode("u2") = "decode"
    /\ ev.user = "u1"
    /\ Count(out, "SendImage") = 1
    /\ mon["u2"].run.kind = "upload"

\* C13 (as claimed): the decoder raises on no input, and in decode mode an
\* upload that is no decodable raster, or holds no symbol, is answered with
\* the not-found message.
C13_DecoderNeverRaises ==
    (IsUpload(ev) /\ ev.mode = "decode") =>
        /\ err = "none"
        /\ (~ev.image.raster \/ ev.image.symbols = <<>>) =>
              out = <<reply_text("no_qr_detected", no_keyboard)>>

IsContent(e) == e.kind = "text" \/ IsUpload(e)

\* C14: an image sent for a text in gen_text mode is the encoder's output for
\* exactly that text, filled with the colour last selected (black if none was)
\* and drawn with rounded modules iff the toggles since the purpose selection
\* left rounding on, which is what the session records.
C14_ImageEncodesTextInStyle ==
    (ev.kind = "text" /\ ev.mode = "gen_text" /\ Count(out, "SendImage") > 0) =>
        LET u == ev.user
            q == out[1].photo
        IN  /\ Len(out) = 1
            /\ q.data = ev.text
            /\ q.front_color = COLOR_MAP[mon[u].style.color]
            /\ q.front_color = user_data[u]["qr_color"]
            /\ (q.drawer = "Rounded") = mon[u].style.rounded
            /\ (q.drawer = "Rounded") = user_data[u]["qr_rounded"]
            /\ q.drawer \in {"Rounded", "Square"}
            /\ q.back_color = <<255, 255, 255>>
            /\ calls = <<EncoderCall(ev.text, q.front_color, mon[u].style.rounded)>>

\* "hello" was sent as an image with blue fill and rounded modules
C14_Witness ==
    /\ ev.kind = "text"
    /\ ev.mode = "gen_text"
    /\ ev.text.body = "hello"
    /\ out = <<reply_photo([data |-> Payload("text", "hello", 5), ec |-> "H",
                            drawer |-> "Rounded", front_color |-> <<30, 144, 255>>,
                            back_color |-> <<255, 255, 255>>, logo |-> "none",
                            width |-> 348, height |-> 348,
                            logo_w |-> 0, logo_h |-> 0, logo_pos |-> <<0, 0>>])>>
    /\ mon[ev.user].style = [color |-> "color_blue", rounded |-> TRUE]

\* C15 (as claimed): a text or upload that arrives after a purpose selection
\* and before 'continue' produces no image.
C15_NoImageBeforeContinue ==
    (IsContent(ev) /\ ev.user \in Users) =>
        (mon[ev.user].confirm = "pending" => Count(out, "SendImage") = 0)

\* C16 (as claimed): the rounded-toggle control rendered last shows the
\* session's rounded flag.
C16_ControlShowsFlag ==
    \A u \in Users :
        mon[u].shown # "none" => ((mon[u].shown = "checked") = Rounded(u))

Idle(u) == Mode(u) = "None"

\* C17 (as claimed): whenever a session is Idle it holds only defaults, that
\* is nothing at all: a colour selection or a toggle that arrives while Idle
\* leaves it as the reset left it.
C17_IdleHoldsDefaults ==
    \A u \in Users : Idle(u) => user_data[u] = EmptyDict

\* C18 (as claimed): every payload the packer accepts is within the encoder's
\* capacity: an upload in gen_img_base64 mode that the packer accepts (a
\* raster whose base64 text is within the ceiling) has a text the encoder can
\* hold, and is encoded and sent as one image.
C18_PackedAlwaysEncodes ==
    (/\ IsUpload(ev)
     /\ ev.mode = "gen_img_base64"
     /\ ev.image.raster
     /\ B64Len(ev.image.png) <= Ceiling)
        => /\ B64Len(ev.image.png) <= CapacityH
           /\ err = "none"
           /\ Count(out, "SendImage") = 1

\* C19: whenever the recorded mode is a generation purpose the session defines
\* both the fill colour and the rounded flag, and no turn faults on a missing
\* style value.
C19_StyleDefinedInGenModes ==
    /\ \A u \in Users : Mode(u) \in GenModes => HasStyle(user_data[u])
    /\ err # "KeyError"
    /\ (ev.mode \in GenModes /\ ev.user \in Users) => HasStyle(prev)

\* a logo upload was turned into an image in a colour selected after the
\* purpose, once 'continue' had been pressed
C19_Witness ==
    /\ IsUpload(ev)
    /\ ev.mode = "gen_img_styled"
    /\ Count(out, "SendImage") = 1
    /\ out[1].photo.front_color = COLOR_MAP["color_red"]
    /\ HasStyle(prev)
    /\ mon[ev.user].confirm = "confirmed"

Shorter(q) == Min(q.width, q.height)

\* C20 (as claimed): a logo pasted in gen_img_styled mode is at most one third
\* of the QR raster's shorter side in width and in height, and its offset is
\* ((qrWidth - logoWidth) div 2, (qrHeight - logoHeight) div 2).
C20_LogoBoundedAndCentred ==
    (IsUpload(ev) /\ ev.mode = "gen_img_styled" /\ Count(out, "SendImage") = 1) =>
        LET q == out[1].photo
        IN  /\ 3 * q.logo_w <= Shorter(q)
            /\ 3 * q.logo_h <= Shorter(q)
            /\ q.logo_pos = <<(q.width - q.logo_w) \div 2,
                              (q.height - q.logo_h) \div 2>>

====
